---------------------------- MODULE Spec2Model ----------------------------
(***************************************************************************)
(* A model of the text-editor document of src/main.py: TextBuffer, Cursor, *)
(* Selection, InsertTextCommand, HistoryManager, Document and the          *)
(* functions that save a Document to a file and load one from it.          *)
(*                                                                         *)
(* A Python str is a sequence of one-character strings; the line           *)
(* separator is the character NL.  A method is an operator from the        *)
(* object's fields and the arguments to a record holding the fields after  *)
(* the call, the value returned (ret) and the exception raised (err,       *)
(* "none" when the call returns normally).                                 *)
(***************************************************************************)
EXTENDS Integers, Sequences, FiniteSets, TLC

VARIABLES
    title,              \* Document.title
    lines,              \* TextBuffer.lines
    cursor,             \* Cursor._line, Cursor._column
    selection,          \* the fields of Document.selection
    created_at,         \* Document.created_at, an instant of the clock
    modified_at,        \* Document.modified_at, an instant of the clock
    file,               \* the file at the path save_to_json and save_to_xml write
    undo_stack,         \* HistoryManager.undo_stack
    redo_stack,         \* HistoryManager.redo_stack
    max_history_size,   \* HistoryManager.max_history_size
    next_id,            \* number of Command objects created so far
    pc,                 \* "run": no call watched yet; "called": one; "done": two
    op,                 \* the last watched call: its name, arguments and outcome
    pre,                \* the fields as they were when the last watched call began
    first,              \* the first watched call
    base                \* the fields as they were when the first watched call began

vars == <<title, lines, cursor, selection, created_at, modified_at, file,
          undo_stack, redo_stack, max_history_size, next_id,
          pc, op, pre, first, base>>

-----------------------------------------------------------------------------
(* Bounds of the model.                                                    *)

\* Most characters the lines of the buffer hold together.
MaxChars == 2
\* Most lines the buffer holds.
MaxLines == 3
\* Most Command objects a Document's callers create in one behaviour.
MaxCmds == 2
\* Most Command objects the callers of a HistoryManager of its own create.
MaxHistoryCmds == 4
\* The small capacity a HistoryManager is constructed with, next to the default.
SmallHistory == 2
\* Default of HistoryManager.__init__'s max_history_size.
DefaultMaxHistorySize == 100
\* Last instant of the clock at which a call is made.
MaxClock == 5

NL == "\n"
Chars == {"a", NL}

Min(a, b) == IF a < b THEN a ELSE b
Max(a, b) == IF a > b THEN a ELSE b

\* Every str of at most n characters.
StrUpTo(n) == UNION {[1..k -> Chars] : k \in 0..n}

-----------------------------------------------------------------------------
(* Python's str and list primitives.                                       *)

\* The bound i of a slice of a sequence of length n, as Python clamps it.
SliceIndex(i, n) == IF i < 0 THEN Max(n + i, 0) ELSE Min(i, n)

\* s[:i]
SliceTo(s, i) == SubSeq(s, 1, SliceIndex(i, Len(s)))

\* s[i:]
SliceFrom(s, i) == SubSeq(s, SliceIndex(i, Len(s)) + 1, Len(s))

\* Whether list[i] exists for a list of length n: -n <= i < n.
IndexOk(i, n) == -n <= i /\ i < n

\* The 1-based place of list[i]: a negative i counts from the end.
ListIndex(i, n) == IF i < 0 THEN n + i + 1 ELSE i + 1

\* The place of the first c in s, 0 when there is none.
RECURSIVE Find(_, _)
Find(s, c) ==
    IF s = <<>> THEN 0
    ELSE IF Head(s) = c THEN 1
    ELSE LET r == Find(Tail(s), c) IN IF r = 0 THEN 0 ELSE r + 1

\* text.split("\n")
RECURSIVE Split(_)
Split(text) ==
    LET i == Find(text, NL) IN
    IF i = 0 THEN <<text>>
    ELSE <<SubSeq(text, 1, i - 1)>> \o Split(SubSeq(text, i + 1, Len(text)))

\* "\n".join(ls)
RECURSIVE Join(_)
Join(ls) ==
    IF ls = <<>> THEN <<>>
    ELSE IF Len(ls) = 1 THEN ls[1]
    ELSE ls[1] \o <<NL>> \o Join(Tail(ls))

\* An argument that is an int, and one that is a str.
IntArg(n) == [kind |-> "int", int |-> n, str |-> <<>>]
StrArg(s) == [kind |-> "str", int |-> 0, str |-> s]

\* data.get(key, default) for a dict data, which is a function of its keys.
Get(data, key, default) == IF key \in DOMAIN data THEN data[key] ELSE default

Digits == <<"0", "1", "2", "3", "4", "5", "6", "7", "8", "9">>

\* str(n) for an int n >= 0
RECURSIVE StrNat(_)
StrNat(n) ==
    IF n < 10 THEN <<Digits[n + 1]>>
    ELSE StrNat(n \div 10) \o <<Digits[(n % 10) + 1]>>

\* str(n) for an int n
Str(n) == IF n < 0 THEN <<"-">> \o StrNat(-n) ELSE StrNat(n)

\* The int the decimal digits s stand for after the digits that stand for
\* acc; ValueError when s holds a character that is no digit.
RECURSIVE IntNat(_, _)
IntNat(s, acc) ==
    IF s = <<>> THEN [err |-> "none", int |-> acc]
    ELSE IF Find(Digits, Head(s)) = 0 THEN [err |-> "ValueError", int |-> 0]
    ELSE IntNat(Tail(s), 10 * acc + Find(Digits, Head(s)) - 1)

\* int(s) for a str s of an optional sign and decimal digits
int(s) ==
    IF s = <<>> THEN [err |-> "ValueError", int |-> 0]
    ELSE IF Head(s) = "-"
    THEN IF Tail(s) = <<>> THEN [err |-> "ValueError", int |-> 0]
         ELSE LET r == IntNat(Tail(s), 0) IN [r EXCEPT !.int = -r.int]
    ELSE IntNat(s, 0)

\* datetime.now() read after the instant t was read: the clock is a counter
\* of the instants read from it, so that every reading is a later instant.
datetime_now(t) == t + 1

-----------------------------------------------------------------------------
(* TextBuffer                                                              *)

\* TextBuffer.__init__
TextBuffer_init == <<<<>>>>

\* TextBuffer.insert_text(line, column, text)
TextBuffer_insert_text(ls, line, column, text) ==
    IF line >= Len(ls) THEN [err |-> "InvalidPositionError", lines |-> ls]
    ELSE IF ~IndexOk(line, Len(ls)) THEN [err |-> "IndexError", lines |-> ls]
    ELSE LET k == ListIndex(line, Len(ls))
             current_line == ls[k]
             new_line == SliceTo(current_line, column) \o text
                             \o SliceFrom(current_line, column)
         IN  [err |-> "none", lines |-> [ls EXCEPT ![k] = new_line]]

\* delete_text removing the character at end_col too.
Mutant_delete_text_inclusive(ls, line, start_col, end_col) ==
    IF line >= Len(ls) THEN [err |-> "InvalidPositionError", lines |-> ls]
    ELSE IF ~IndexOk(line, Len(ls)) THEN [err |-> "IndexError", lines |-> ls]
    ELSE IF end_col.kind # "int" THEN [err |-> "TypeError", lines |-> ls]
    ELSE LET k == ListIndex(line, Len(ls))
             current_line == ls[k]
         IN  [err |-> "none",
              lines |-> [ls EXCEPT ![k] = SliceTo(current_line, start_col)
                                            \o SliceFrom(current_line, end_col.int + 1)]]

\* TextBuffer.delete_text(line, start_col, end_col); end_col is an IntArg or a
\* StrArg, and a slice bound that is a str raises TypeError.
TextBuffer_delete_text(ls, line, start_col, end_col) ==
    IF line >= Len(ls) THEN [err |-> "InvalidPositionError", lines |-> ls]
    ELSE IF ~IndexOk(line, Len(ls)) THEN [err |-> "IndexError", lines |-> ls]
    ELSE IF end_col.kind # "int" THEN [err |-> "TypeError", lines |-> ls]
    ELSE LET k == ListIndex(line, Len(ls))
             current_line == ls[k]
         IN  [err |-> "none",
              lines |-> [ls EXCEPT ![k] = SliceTo(current_line, start_col)
                                            \o SliceFrom(current_line, end_col.int)]]

\* TextBuffer.get_text()
TextBuffer_get_text(ls) == Join(ls)

\* set_text leaving no line for an empty text.
Mutant_set_text_no_line(text) == IF text # <<>> THEN Split(text) ELSE <<>>

\* set_text dropping the empty line after a final separator, as
\* text.splitlines() does.
Mutant_set_text_splitlines(text) ==
    IF text = <<>> THEN <<<<>>>>
    ELSE IF text[Len(text)] = NL THEN Split(SubSeq(text, 1, Len(text) - 1))
    ELSE Split(text)

\* TextBuffer.set_text(text)
TextBuffer_set_text(text) == IF text # <<>> THEN Split(text) ELSE <<<<>>>>

-----------------------------------------------------------------------------
(* Cursor                                                                  *)

\* Cursor.__init__
Cursor_init == [line |-> 0, column |-> 0]

\* set_position storing the line before it checks the column.
Mutant_set_position_partial(cur, line, column) ==
    IF line < 0 THEN [err |-> "InvalidPositionError", cursor |-> cur]
    ELSE IF column < 0
    THEN [err |-> "InvalidPositionError", cursor |-> [cur EXCEPT !.line = line]]
    ELSE [err |-> "none", cursor |-> [line |-> line, column |-> column]]

\* Cursor.set_position(line, column)
Cursor_set_position(cur, line, column) ==
    IF line < 0 \/ column < 0
    THEN [err |-> "InvalidPositionError", cursor |-> cur]
    ELSE [err |-> "none", cursor |-> [line |-> line, column |-> column]]

\* Cursor.to_dict
Cursor_to_dict(cur) == [line |-> cur.line, column |-> cur.column]

\* Cursor.from_dict(data): the values of data are stored as they are.
Cursor_from_dict(data) ==
    [line |-> Get(data, "line", 0), column |-> Get(data, "column", 0)]

-----------------------------------------------------------------------------
(* Selection                                                               *)

\* Selection.__init__
Selection_init ==
    [start_line |-> 0, start_column |-> 0, end_line |-> 0, end_column |-> 0,
     is_active |-> FALSE]

\* Selection.set_start(line, column)
Selection_set_start(sel, line, column) ==
    [sel EXCEPT !.start_line = line, !.start_column = column, !.is_active = TRUE]

\* Selection.set_end(line, column)
Selection_set_end(sel, line, column) ==
    [sel EXCEPT !.end_line = line, !.end_column = column, !.is_active = TRUE]

\* Selection.clear
Selection_clear(sel) == [sel EXCEPT !.is_active = FALSE]

\* The str literal get_selected_text returns for an active selection, a
\* five-letter Cyrillic word, letter by letter in Latin script.
SelectedText == <<"t", "e", "k", "s", "t">>

\* Selection.get_selected_text(lines)
Selection_get_selected_text(sel, ls) ==
    IF ~sel.is_active THEN <<>> ELSE SelectedText

-----------------------------------------------------------------------------
(* Command and InsertTextCommand                                          *)

\* A Command object: id tells two objects apart, kind is its class ("object"
\* is an object of a class that has no execute and no undo), and line, column
\* and text are the fields of an InsertTextCommand.
NewCommand(id, kind, line, column, text) ==
    [id |-> id, kind |-> kind, line |-> line, column |-> column, text |-> text]

NoCommand == NewCommand(0, "none", 0, 0, <<>>)

\* Command.execute: pass
Command_execute(command, ls) == [err |-> "none", lines |-> ls]

\* Command.undo: pass
Command_undo(command, ls) == [err |-> "none", lines |-> ls]

\* InsertTextCommand.execute
InsertTextCommand_execute(command, ls) ==
    TextBuffer_insert_text(ls, command.line, command.column, command.text)

\* InsertTextCommand.undo: the third argument of delete_text is self.text
InsertTextCommand_undo(command, ls) ==
    TextBuffer_delete_text(ls, command.line, command.column, StrArg(command.text))

\* command.execute(), by the class of command
Execute(command, ls) ==
    IF command.kind = "InsertTextCommand"
    THEN InsertTextCommand_execute(command, ls)
    ELSE Command_execute(command, ls)

\* command.undo(), by the class of command
Undo(command, ls) ==
    IF command.kind = "InsertTextCommand"
    THEN InsertTextCommand_undo(command, ls)
    ELSE Command_undo(command, ls)

-----------------------------------------------------------------------------
(* HistoryManager                                                          *)

Front(s) == SubSeq(s, 1, Len(s) - 1)
Last(s) == s[Len(s)]

\* The fields of a document that a call reads and writes.
Fields ==
    [title |-> title, lines |-> lines, cursor |-> cursor, selection |-> selection,
     undo_stack |-> undo_stack, redo_stack |-> redo_stack,
     created_at |-> created_at, modified_at |-> modified_at]

\* The outcome of a call on the fields d: the fields after it, the value
\* returned (value when it is a str), the exception raised and the command
\* methods it called.
Outcome(d, ret, err, calls) ==
    [title |-> d.title, lines |-> d.lines, cursor |-> d.cursor,
     selection |-> d.selection, undo_stack |-> d.undo_stack,
     redo_stack |-> d.redo_stack, created_at |-> d.created_at,
     modified_at |-> d.modified_at,
     ret |-> ret, value |-> <<>>, err |-> err, calls |-> calls]

\* HistoryManager.is_valid_command
HistoryManager_is_valid_command(command) ==
    command.kind \in {"Command", "InsertTextCommand"}

\* execute_command that leaves the redo stack as it is.
Mutant_execute_command_keeps_redo(d, command) ==
    IF ~HistoryManager_is_valid_command(command)
    THEN Outcome(d, "None", "TextEditorError", <<>>)
    ELSE LET r == Execute(command, d.lines)
             called == <<<<"execute", command.id>>>>
         IN  IF r.err # "none"
             THEN Outcome([d EXCEPT !.lines = r.lines], "None", r.err, called)
             ELSE Outcome([d EXCEPT !.lines = r.lines,
                                    !.undo_stack = Append(d.undo_stack, command)],
                          "None", "none", called)

\* HistoryManager.execute_command
HistoryManager_execute_command(d, command) ==
    IF ~HistoryManager_is_valid_command(command)
    THEN Outcome(d, "None", "TextEditorError", <<>>)
    ELSE LET r == Execute(command, d.lines)
             called == <<<<"execute", command.id>>>>
         IN  IF r.err # "none"
             THEN Outcome([d EXCEPT !.lines = r.lines], "None", r.err, called)
             ELSE Outcome([d EXCEPT !.lines = r.lines,
                                    !.undo_stack = Append(d.undo_stack, command),
                                    !.redo_stack = <<>>],
                          "None", "none", called)

\* undo that drops the command instead of moving it to the redo stack.
Mutant_undo_drops_command(d) ==
    IF d.undo_stack = <<>>
    THEN Outcome(d, "False", "none", <<>>)
    ELSE LET command == Last(d.undo_stack)
             popped == [d EXCEPT !.undo_stack = Front(d.undo_stack)]
             r == Undo(command, d.lines)
             called == <<<<"undo", command.id>>>>
         IN  IF r.err # "none"
             THEN Outcome([popped EXCEPT !.lines = r.lines], "None", r.err, called)
             ELSE Outcome([popped EXCEPT !.lines = r.lines], "True", "none", called)

\* HistoryManager.undo
HistoryManager_undo(d) ==
    IF d.undo_stack = <<>>
    THEN Outcome(d, "False", "none", <<>>)
    ELSE LET command == Last(d.undo_stack)
             popped == [d EXCEPT !.undo_stack = Front(d.undo_stack)]
             r == Undo(command, d.lines)
             called == <<<<"undo", command.id>>>>
         IN  IF r.err # "none"
             THEN Outcome([popped EXCEPT !.lines = r.lines], "None", r.err, called)
             ELSE Outcome([popped EXCEPT !.lines = r.lines,
                                         !.redo_stack = Append(d.redo_stack, command)],
                          "True", "none", called)

\* HistoryManager.redo
HistoryManager_redo(d) ==
    IF d.redo_stack = <<>>
    THEN Outcome(d, "False", "none", <<>>)
    ELSE LET command == Last(d.redo_stack)
             popped == [d EXCEPT !.redo_stack = Front(d.redo_stack)]
             r == Execute(command, d.lines)
             called == <<<<"execute", command.id>>>>
         IN  IF r.err # "none"
             THEN Outcome([popped EXCEPT !.lines = r.lines], "None", r.err, called)
             ELSE Outcome([popped EXCEPT !.lines = r.lines,
                                         !.redo_stack = Append(popped.redo_stack, command)],
                          "True", "none", called)

\* HistoryManager.can_undo
HistoryManager_can_undo(d) == Len(d.undo_stack) > 0

\* HistoryManager.can_redo
HistoryManager_can_redo(d) == Len(d.redo_stack) > 0

-----------------------------------------------------------------------------
(* Document                                                                *)

\* The title of a Document constructed without one, in Latin script.
DefaultTitle == "Novyj dokument"

\* Document(title), constructed after the instant t was read from the clock.
Document(doc_title, t) ==
    [title |-> doc_title, lines |-> TextBuffer_init, cursor |-> Cursor_init,
     selection |-> Selection_init, undo_stack |-> <<>>, redo_stack |-> <<>>,
     created_at |-> datetime_now(t),
     modified_at |-> datetime_now(datetime_now(t))]

\* insert_text that moves the cursor past the text it inserted.
Mutant_insert_text_moves_cursor(d, text, id) ==
    LET line == d.cursor.line
        column == d.cursor.column
        command == NewCommand(id, "InsertTextCommand", line, column, text)
        r == HistoryManager_execute_command(d, command)
    IN  IF r.err # "none" THEN r
        ELSE [r EXCEPT !.cursor = [line |-> line, column |-> column + Len(text)],
                       !.modified_at = datetime_now(d.modified_at)]

\* Document.insert_text(text); id names the InsertTextCommand it creates.
Document_insert_text(d, text, id) ==
    LET line == d.cursor.line
        column == d.cursor.column
        command == NewCommand(id, "InsertTextCommand", line, column, text)
        r == HistoryManager_execute_command(d, command)
    IN  IF r.err # "none" THEN r
        ELSE [r EXCEPT !.modified_at = datetime_now(d.modified_at)]

\* Document.get_text
Document_get_text(d) == TextBuffer_get_text(d.lines)

\* set_text that empties the undo stack and the redo stack.
Mutant_set_text_clears_history(d, text) ==
    LET c == Cursor_set_position(d.cursor, 0, 0)
    IN  IF c.err # "none"
        THEN Outcome([d EXCEPT !.lines = TextBuffer_set_text(text)], "None", c.err, <<>>)
        ELSE Outcome([d EXCEPT !.lines = TextBuffer_set_text(text),
                               !.cursor = c.cursor,
                               !.undo_stack = <<>>,
                               !.redo_stack = <<>>,
                               !.modified_at = datetime_now(d.modified_at)],
                     "None", "none", <<>>)

\* Document.set_text(text)
Document_set_text(d, text) ==
    LET c == Cursor_set_position(d.cursor, 0, 0)
    IN  IF c.err # "none"
        THEN Outcome([d EXCEPT !.lines = TextBuffer_set_text(text)], "None", c.err, <<>>)
        ELSE Outcome([d EXCEPT !.lines = TextBuffer_set_text(text),
                               !.cursor = c.cursor,
                               !.modified_at = datetime_now(d.modified_at)],
                     "None", "none", <<>>)

\* undo that updates modified_at whatever HistoryManager.undo returned.
Mutant_undo_always_modified(d) ==
    LET result == HistoryManager_undo(d)
    IN  IF result.err = "none"
        THEN [result EXCEPT !.modified_at = datetime_now(d.modified_at)]
        ELSE result

\* Document.undo
Document_undo(d) ==
    LET result == HistoryManager_undo(d)
    IN  IF result.err = "none" /\ result.ret = "True"
        THEN [result EXCEPT !.modified_at = datetime_now(d.modified_at)]
        ELSE result

\* Document.redo
Document_redo(d) ==
    LET result == HistoryManager_redo(d)
    IN  IF result.err = "none" /\ result.ret = "True"
        THEN [result EXCEPT !.modified_at = datetime_now(d.modified_at)]
        ELSE result

\* The root element Document.to_xml builds: the texts of its title and content
\* elements and the attributes of its cursor element.
Document_to_xml(d) ==
    [title |-> d.title, content |-> Document_get_text(d),
     line |-> Str(d.cursor.line), column |-> Str(d.cursor.column)]

\* Document.from_xml(root), called on the fields d after the instant
\* d.modified_at was read; a content element without text has the text "".
Document_from_xml(d, root) ==
    LET document == Document(Get(root, "title", DefaultTitle), d.modified_at)
        content == Get(root, "content", <<>>)
        with_text == IF content # <<>> THEN Document_set_text(document, content)
                     ELSE Outcome(document, "None", "none", <<>>)
        line == int(Get(root, "line", <<"0">>))
        column == int(Get(root, "column", <<"0">>))
        c == Cursor_set_position(with_text.cursor, line.int, column.int)
    IN  IF with_text.err # "none" THEN Outcome(d, "None", with_text.err, <<>>)
        ELSE IF line.err # "none" THEN Outcome(d, "None", line.err, <<>>)
        ELSE IF column.err # "none" THEN Outcome(d, "None", column.err, <<>>)
        ELSE IF c.err # "none" THEN Outcome(d, "None", c.err, <<>>)
        ELSE Outcome([with_text EXCEPT !.cursor = c.cursor], "Document", "none", <<>>)

-----------------------------------------------------------------------------
(* Files: save_to_json, load_from_json, save_to_xml, load_from_xml         *)

\* What a path holds: nothing (kind "none"), the dict json.dump wrote (kind
\* "json", data), the element tree ElementTree.write wrote (kind "xml", root),
\* or a text that is neither (kind "text").  json.dump and json.load keep a
\* str, an int and a dict of them as they are; the ISO text of an instant
\* stands for the instant.
NoData ==
    [title |-> "", content |-> <<>>, cursor |-> <<>>, created_at |-> 0,
     modified_at |-> 0]
NoRoot == [title |-> "", content |-> <<>>, line |-> <<>>, column |-> <<>>]
NoFile == [kind |-> "none", data |-> NoData, root |-> NoRoot]
TextFile == [kind |-> "text", data |-> NoData, root |-> NoRoot]
JsonFile(data) == [kind |-> "json", data |-> data, root |-> NoRoot]
XmlFile(root) == [kind |-> "xml", data |-> NoData, root |-> root]

\* save_to_json(document, file_path) where file_path holds old; writable says
\* whether open(file_path, 'w') succeeds.
save_to_json(d, old, writable) ==
    LET data == [title |-> d.title,
                 content |-> TextBuffer_get_text(d.lines),
                 cursor |-> Cursor_to_dict(d.cursor),
                 created_at |-> d.created_at,
                 modified_at |-> d.modified_at]
    IN  IF ~writable THEN [err |-> "FileOperationError", file |-> old]
        ELSE [err |-> "none", file |-> JsonFile(data)]

\* The try block of load_from_json(file_path) where file_path holds f, called
\* on the fields d after the instant d.modified_at was read.
load_from_json_try(d, f) ==
    IF f.kind = "none" THEN Outcome(d, "None", "DocumentNotFoundError", <<>>)
    ELSE IF f.kind # "json" THEN Outcome(d, "None", "JSONDecodeError", <<>>)
    ELSE LET data == f.data
             document == Document(Get(data, "title", DefaultTitle), d.modified_at)
             cursor_data == Get(data, "cursor", <<>>)
         IN  Outcome([document EXCEPT
                         !.lines = TextBuffer_set_text(Get(data, "content", <<>>)),
                         !.cursor = Cursor_from_dict(cursor_data)],
                     "Document", "none", <<>>)

\* load_from_json whose except clauses wrap every exception.
Mutant_load_from_json_wraps_all(d, f) ==
    LET r == load_from_json_try(d, f)
    IN  IF r.err # "none" THEN Outcome(d, "None", "FileOperationError", <<>>)
        ELSE r

\* load_from_json(file_path): the try block and its except clauses
load_from_json(d, f) ==
    LET r == load_from_json_try(d, f)
    IN  IF r.err = "DocumentNotFoundError" THEN r
        ELSE IF r.err # "none" THEN Outcome(d, "None", "FileOperationError", <<>>)
        ELSE r

\* save_to_xml(document, file_path) where file_path holds old; writable says
\* whether tree.write(file_path) succeeds.
save_to_xml(d, old, writable) ==
    LET root == Document_to_xml(d)
    IN  IF ~writable THEN [err |-> "FileOperationError", file |-> old]
        ELSE [err |-> "none", file |-> XmlFile(root)]

\* The try block of load_from_xml(file_path) where file_path holds f.
load_from_xml_try(d, f) ==
    IF f.kind = "none" THEN Outcome(d, "None", "DocumentNotFoundError", <<>>)
    ELSE IF f.kind # "xml" THEN Outcome(d, "None", "ParseError", <<>>)
    ELSE Document_from_xml(d, f.root)

\* load_from_xml(file_path): the try block and its except clauses
load_from_xml(d, f) ==
    LET r == load_from_xml_try(d, f)
    IN  IF r.err = "DocumentNotFoundError" THEN r
        ELSE IF r.err # "none" THEN Outcome(d, "None", "FileOperationError", <<>>)
        ELSE r

-----------------------------------------------------------------------------
(* Calls and their record.  Any number of calls run unwatched; then one    *)
(* call is watched (its arguments, its outcome and the fields it started   *)
(* from are recorded), and a second call may be watched right after it.    *)

\* The record of a call before its outcome is known; file is what the path
\* held that the call was to read.
Call(name, line, column, end_col, text, command) ==
    [name |-> name, line |-> line, column |-> column, end_col |-> end_col,
     text |-> text, command |-> command, file |-> NoFile,
     ret |-> "None", value |-> <<>>, err |-> "none", calls |-> <<>>]

\* The call returns with outcome r, before the clock has passed MaxClock: the
\* fields become r's; a watched call is recorded.
Commit(call, r, watch) ==
    /\ pc \in {"run", "called"}
    /\ pc = "called" => watch
    /\ r.modified_at <= MaxClock
    /\ title' = r.title
    /\ lines' = r.lines
    /\ cursor' = r.cursor
    /\ selection' = r.selection
    /\ undo_stack' = r.undo_stack
    /\ redo_stack' = r.redo_stack
    /\ created_at' = r.created_at
    /\ modified_at' = r.modified_at
    /\ IF watch
       THEN /\ op' = [call EXCEPT !.ret = r.ret, !.value = r.value, !.err = r.err,
                                  !.calls = r.calls]
            /\ pre' = Fields
            /\ pc' = IF pc = "run" THEN "called" ELSE "done"
            /\ first' = IF pc = "run" THEN op' ELSE first
            /\ base' = IF pc = "run" THEN Fields ELSE base
       ELSE UNCHANGED <<pc, op, pre, first, base>>
    /\ UNCHANGED <<max_history_size, file>>

\* The number of characters in the lines ls.
RECURSIVE TotalLen(_)
TotalLen(ls) == IF ls = <<>> THEN 0 ELSE Len(Head(ls)) + TotalLen(Tail(ls))

\* Whether the buffer ls is within the bounds of the model.
Fits(ls) == Len(ls) <= MaxLines /\ TotalLen(ls) <= MaxChars

-----------------------------------------------------------------------------
(* A Document and the calls made on it.                                    *)

\* The arguments the calls on a Document are made with.
LineArgs == {-1, 0, 1}
ColumnArgs == {-1, 0, 1}
InsertArgs == {<<"a">>}
TextArgs == {<<>>, <<"a", NL>>}
CommandArgs == {"Command", "object"}

\* Document.__init__, with the capacity its HistoryManager is constructed with.
Document_init(size) ==
    LET document == Document(DefaultTitle, 0)
    IN  /\ title = document.title
        /\ lines = document.lines
        /\ cursor = document.cursor
        /\ selection = document.selection
        /\ undo_stack = document.undo_stack
        /\ redo_stack = document.redo_stack
        /\ created_at = document.created_at
        /\ modified_at = document.modified_at
        /\ file = NoFile
        /\ max_history_size = size
        /\ next_id = 0
        /\ op = Call("__init__", 0, 0, 0, <<>>, NoCommand)
        /\ pre = document
        /\ first = op
        /\ base = pre
        /\ pc = "run"

Init == Document_init(DefaultMaxHistorySize)

\* document.cursor.set_position(line, column)
CallSetPosition ==
    /\ pc = "run"
    /\ \E line \in LineArgs, column \in ColumnArgs, watch \in BOOLEAN :
           LET c == Cursor_set_position(cursor, line, column)
           IN  Commit(Call("set_position", line, column, 0, <<>>, NoCommand),
                      Outcome([Fields EXCEPT !.cursor = c.cursor], "None", c.err, <<>>),
                      watch)
    /\ UNCHANGED next_id

\* document.insert_text(text)
CallInsertText ==
    /\ pc = "run"
    /\ next_id < MaxCmds
    /\ \E text \in InsertArgs, watch \in BOOLEAN :
           LET r == Document_insert_text(Fields, text, next_id + 1)
           IN  /\ Fits(r.lines)
               /\ Commit(Call("insert_text", cursor.line, cursor.column, 0, text,
                              NewCommand(next_id + 1, "InsertTextCommand",
                                         cursor.line, cursor.column, text)),
                         r, watch)
    /\ next_id' = next_id + 1

\* document.set_text(text)
CallSetText ==
    /\ pc = "run"
    /\ \E text \in TextArgs, watch \in BOOLEAN :
           Commit(Call("set_text", 0, 0, 0, text, NoCommand),
                  Document_set_text(Fields, text), watch)
    /\ UNCHANGED next_id

\* document.undo(), also as the second watched call
CallUndo ==
    /\ \E watch \in BOOLEAN :
           Commit(Call("undo", 0, 0, 0, <<>>, NoCommand), Document_undo(Fields), watch)
    /\ UNCHANGED next_id

\* document.redo(), also as the second watched call
CallRedo ==
    /\ \E watch \in BOOLEAN :
           Commit(Call("redo", 0, 0, 0, <<>>, NoCommand), Document_redo(Fields), watch)
    /\ UNCHANGED next_id

\* document.history.execute_command(Command())
CallExecuteCommand ==
    /\ pc = "run"
    /\ next_id < MaxCmds
    /\ \E watch \in BOOLEAN :
           LET command == NewCommand(next_id + 1, "Command", 0, 0, <<>>)
           IN  Commit(Call("execute_command", 0, 0, 0, <<>>, command),
                      HistoryManager_execute_command(Fields, command), watch)
    /\ next_id' = next_id + 1

\* document.history.execute_command(object()): an object that is no command
CallExecuteObject ==
    /\ pc = "run"
    /\ \E watch \in BOOLEAN :
           LET command == NewCommand(0, "object", 0, 0, <<>>)
           IN  Commit(Call("execute_command", 0, 0, 0, <<>>, command),
                      HistoryManager_execute_command(Fields, command), watch)
    /\ UNCHANGED next_id

Next ==
    \/ CallSetPosition
    \/ CallInsertText
    \/ CallSetText
    \/ CallUndo
    \/ CallRedo
    \/ CallExecuteCommand
    \/ CallExecuteObject

Spec == Init /\ [][Next]_vars

-----------------------------------------------------------------------------
(* A HistoryManager of its own, constructed with a capacity, and the calls *)
(* made on it with Command objects.                                        *)

InitHistory == \E size \in {SmallHistory, DefaultMaxHistorySize} : Document_init(size)

\* history.execute_command(Command())
HistoryExecuteCommand ==
    /\ pc = "run"
    /\ next_id < MaxHistoryCmds
    /\ \E watch \in BOOLEAN :
           LET command == NewCommand(next_id + 1, "Command", 0, 0, <<>>)
           IN  Commit(Call("execute_command", 0, 0, 0, <<>>, command),
                      HistoryManager_execute_command(Fields, command), watch)
    /\ next_id' = next_id + 1

\* history.undo()
HistoryUndo ==
    /\ pc = "run"
    /\ \E watch \in BOOLEAN :
           Commit(Call("undo", 0, 0, 0, <<>>, NoCommand), HistoryManager_undo(Fields),
                  watch)
    /\ UNCHANGED next_id

\* history.redo()
HistoryRedo ==
    /\ pc = "run"
    /\ \E watch \in BOOLEAN :
           Commit(Call("redo", 0, 0, 0, <<>>, NoCommand), HistoryManager_redo(Fields),
                  watch)
    /\ UNCHANGED next_id

NextHistory ==
    \/ HistoryExecuteCommand
    \/ HistoryUndo
    \/ HistoryRedo

SpecHistory == InitHistory /\ [][NextHistory]_vars

-----------------------------------------------------------------------------
(* A TextBuffer of its own and the calls made on it.                       *)

\* The arguments the calls on a TextBuffer are made with.
BufferLineArgs == -(MaxLines + 1)..MaxLines
BufferColumnArgs == -1..(MaxChars + 1)
BufferInsertArgs == StrUpTo(MaxChars)
BufferTextArgs ==
    {t \in StrUpTo(MaxChars + MaxLines - 1) : Fits(TextBuffer_set_text(t))}

InitBuffer == Document_init(DefaultMaxHistorySize)

\* buffer.insert_text(line, column, text)
BufferInsertText ==
    /\ pc = "run"
    /\ Fits(lines)
    /\ \E line \in BufferLineArgs, column \in BufferColumnArgs,
          text \in BufferInsertArgs, watch \in BOOLEAN :
           LET r == TextBuffer_insert_text(lines, line, column, text)
           IN  /\ Fits(r.lines)
               /\ Commit(Call("insert_text", line, column, 0, text, NoCommand),
                         Outcome([Fields EXCEPT !.lines = r.lines], "None", r.err, <<>>),
                         watch)
    /\ UNCHANGED next_id

\* buffer.delete_text(line, start_col, end_col)
BufferDeleteText ==
    /\ pc = "run"
    /\ Fits(lines)
    /\ \E line \in BufferLineArgs, start_col \in BufferColumnArgs,
          end_col \in BufferColumnArgs, watch \in BOOLEAN :
           LET r == TextBuffer_delete_text(lines, line, start_col, IntArg(end_col))
           IN  Commit(Call("delete_text", line, start_col, end_col, <<>>, NoCommand),
                      Outcome([Fields EXCEPT !.lines = r.lines], "None", r.err, <<>>),
                      watch)
    /\ UNCHANGED next_id

\* buffer.delete_text(line, column, column + len(text)) as the second watched
\* call, after buffer.insert_text(line, column, text) returned.
BufferDeleteInserted ==
    /\ pc = "called"
    /\ op.name = "insert_text"
    /\ op.err = "none"
    /\ LET end_col == op.column + Len(op.text)
           r == TextBuffer_delete_text(lines, op.line, op.column, IntArg(end_col))
       IN  Commit(Call("delete_text", op.line, op.column, end_col, <<>>, NoCommand),
                  Outcome([Fields EXCEPT !.lines = r.lines], "None", r.err, <<>>),
                  TRUE)
    /\ UNCHANGED next_id

\* buffer.set_text(text)
BufferSetText ==
    /\ pc = "run"
    /\ \E text \in BufferTextArgs, watch \in BOOLEAN :
           Commit(Call("set_text", 0, 0, 0, text, NoCommand),
                  Outcome([Fields EXCEPT !.lines = TextBuffer_set_text(text)],
                          "None", "none", <<>>),
                  watch)
    /\ UNCHANGED next_id

NextBuffer ==
    \/ BufferInsertText
    \/ BufferDeleteText
    \/ BufferDeleteInserted
    \/ BufferSetText

SpecBuffer == InitBuffer /\ [][NextBuffer]_vars

-----------------------------------------------------------------------------
(* A Document, the calls that save it to a file and the calls that make a  *)
(* Document or a Cursor from data.  A loaded Document takes the place of   *)
(* the Document: document = load_from_json(file_path).  The file is saved  *)
(* by the watched call and loaded by the call after it; the other files    *)
(* that are loaded are files found at other paths.                         *)

\* The dicts a Cursor is made from.
DictArgs ==
    {<<>>, [line |-> 1], [line |-> 1, column |-> 1], [line |-> -1, column |-> 0],
     [line |-> 0, column |-> -1]}

\* The files found at the paths that are loaded: no file, a text file, JSON
\* files and XML files.
FileArgs ==
    {NoFile, TextFile}
    \cup {JsonFile([title |-> "Lab", content |-> <<"a", NL>>, cursor |-> data,
                    created_at |-> 0, modified_at |-> 0]) :
            data \in {[line |-> 1, column |-> 1], [line |-> -1, column |-> 0]}}
    \cup {XmlFile([title |-> "Lab", content |-> <<"a", NL>>, line |-> l,
                   column |-> <<"0">>]) :
            l \in {<<"1">>, <<"-", "1">>, <<"a">>}}

InitFile == Document_init(DefaultMaxHistorySize)

\* document.cursor = Cursor.from_dict(data)
CallCursorFromDict ==
    /\ pc = "run"
    /\ \E data \in DictArgs, watch \in BOOLEAN :
           Commit(Call("from_dict", Get(data, "line", 0), Get(data, "column", 0), 0,
                       <<>>, NoCommand),
                  Outcome([Fields EXCEPT !.cursor = Cursor_from_dict(data)],
                          "Cursor", "none", <<>>),
                  watch)
    /\ UNCHANGED next_id

\* A call that saves the document returns with outcome r: the file becomes
\* r's, and the call is watched.
CommitSave(call, r) ==
    /\ pc = "run"
    /\ file' = r.file
    /\ op' = [call EXCEPT !.err = r.err]
    /\ pre' = Fields
    /\ first' = op'
    /\ base' = Fields
    /\ pc' = "called"
    /\ UNCHANGED <<title, lines, cursor, selection, created_at, modified_at,
                   undo_stack, redo_stack, max_history_size, next_id>>

\* save_to_json(document, file_path)
CallSaveToJson ==
    /\ pc = "run"
    /\ \E writable \in BOOLEAN :
           CommitSave(Call("save_to_json", 0, 0, 0, <<>>, NoCommand),
                      save_to_json(Fields, file, writable))

\* save_to_xml(document, file_path)
CallSaveToXml ==
    /\ pc = "run"
    /\ \E writable \in BOOLEAN :
           CommitSave(Call("save_to_xml", 0, 0, 0, <<>>, NoCommand),
                      save_to_xml(Fields, file, writable))

\* The files a load reads: the file just saved, as the second watched call,
\* or a file found at another path.
Loadable ==
    IF pc = "called" /\ op.name \in {"save_to_json", "save_to_xml"}
    THEN {file}
    ELSE IF pc = "run" THEN FileArgs
    ELSE {}

\* document = load_from_json(file_path)
CallLoadFromJson ==
    /\ \E f \in Loadable, watch \in BOOLEAN :
           Commit([Call("load_from_json", 0, 0, 0, <<>>, NoCommand) EXCEPT !.file = f],
                  load_from_json(Fields, f), watch)
    /\ UNCHANGED next_id

\* document = load_from_xml(file_path)
CallLoadFromXml ==
    /\ \E f \in Loadable, watch \in BOOLEAN :
           Commit([Call("load_from_xml", 0, 0, 0, <<>>, NoCommand) EXCEPT !.file = f],
                  load_from_xml(Fields, f), watch)
    /\ UNCHANGED next_id

\* document.undo() before the watched calls
FileUndo ==
    /\ pc = "run"
    /\ CallUndo

\* document.redo() before the watched calls
FileRedo ==
    /\ pc = "run"
    /\ CallRedo

\* document = Document.from_xml(root), root the root of an XML file
CallFromXml ==
    /\ pc = "run"
    /\ \E f \in {g \in FileArgs : g.kind = "xml"}, watch \in BOOLEAN :
           Commit([Call("from_xml", 0, 0, 0, <<>>, NoCommand) EXCEPT !.file = f],
                  Document_from_xml(Fields, f.root), watch)
    /\ UNCHANGED next_id

NextFile ==
    \/ CallSetPosition
    \/ CallInsertText
    \/ CallSetText
    \/ FileUndo
    \/ FileRedo
    \/ CallCursorFromDict
    \/ CallSaveToJson
    \/ CallLoadFromJson
    \/ CallSaveToXml
    \/ CallLoadFromXml
    \/ CallFromXml

SpecFile == InitFile /\ [][NextFile]_vars

-----------------------------------------------------------------------------
(* A Document and the calls made on its Selection.                         *)

\* The positions set_start and set_end are called with.
SelectionStartArgs == {<<0, 0>>, <<1, 0>>}
SelectionEndArgs == {<<0, 1>>, <<1, 1>>}

InitSelection == Document_init(DefaultMaxHistorySize)

\* document.selection.set_start(line, column)
SelectionSetStart ==
    /\ pc = "run"
    /\ \E position \in SelectionStartArgs, watch \in BOOLEAN :
           LET line == position[1]
               column == position[2]
           IN  Commit(Call("set_start", line, column, 0, <<>>, NoCommand),
                      Outcome([Fields EXCEPT !.selection =
                                  Selection_set_start(selection, line, column)],
                              "None", "none", <<>>),
                      watch)
    /\ UNCHANGED next_id

\* document.selection.set_end(line, column)
SelectionSetEnd ==
    /\ pc = "run"
    /\ \E position \in SelectionEndArgs, watch \in BOOLEAN :
           LET line == position[1]
               column == position[2]
           IN  Commit(Call("set_end", line, column, 0, <<>>, NoCommand),
                      Outcome([Fields EXCEPT !.selection =
                                  Selection_set_end(selection, line, column)],
                              "None", "none", <<>>),
                      watch)
    /\ UNCHANGED next_id

\* document.selection.clear()
SelectionClear ==
    /\ pc = "run"
    /\ \E watch \in BOOLEAN :
           Commit(Call("clear", 0, 0, 0, <<>>, NoCommand),
                  Outcome([Fields EXCEPT !.selection = Selection_clear(selection)],
                          "None", "none", <<>>),
                  watch)
    /\ UNCHANGED next_id

\* document.selection.get_selected_text(document.text_buffer.lines), a call
\* that is watched
SelectionGetSelectedText ==
    /\ pc = "run"
    /\ Commit(Call("get_selected_text", 0, 0, 0, <<>>, NoCommand),
              [Outcome(Fields, "str", "none", <<>>) EXCEPT
                  !.value = Selection_get_selected_text(selection, lines)],
              TRUE)
    /\ UNCHANGED next_id

NextSelection ==
    \/ CallSetPosition
    \/ CallInsertText
    \/ CallSetText
    \/ SelectionSetStart
    \/ SelectionSetEnd
    \/ SelectionClear
    \/ SelectionGetSelectedText

SpecSelection == InitSelection /\ [][NextSelection]_vars

-----------------------------------------------------------------------------
(* The claims.                                                             *)

\* The number of line separators in text.
RECURSIVE Separators(_)
Separators(text) ==
    IF text = <<>> THEN 0
    ELSE (IF Head(text) = NL THEN 1 ELSE 0) + Separators(Tail(text))

\* Whether line is the index of a line of ls: 0 <= line < lineCount.
ExistingLine(line, ls) == 0 <= line /\ line < Len(ls)

\* C1: when Document.insert_text(t) returns, an undo() called right after it
\* returns True without an error and leaves the lines as they were before
\* insert_text.
C1_UndoRestoresInsert ==
    (pc = "done" /\ first.name = "insert_text" /\ first.err = "none"
        /\ op.name = "undo")
    => (op.err = "none" /\ op.ret = "True" /\ lines = base.lines)

\* C2: redo() on a non-empty redo stack, when the command's execute() returns,
\* takes the top command off the redo stack, executes it once and pushes it
\* onto the undo stack; on an empty redo stack it returns False and changes
\* nothing.
C2_RedoMovesToUndoStack ==
    op.name = "redo" =>
        IF pre.redo_stack = <<>>
        THEN op.ret = "False" /\ op.err = "none" /\ Fields = pre
        ELSE op.err = "none" =>
                /\ op.ret = "True"
                /\ op.calls = <<<<"execute", Last(pre.redo_stack).id>>>>
                /\ redo_stack = Front(pre.redo_stack)
                /\ undo_stack = Append(pre.undo_stack, Last(pre.redo_stack))
                /\ (Len(pre.redo_stack) = 1 =>
                        /\ ~HistoryManager_can_redo(Fields)
                        /\ HistoryManager_can_undo(Fields))

\* C3: after every execute_command(cmd) that returns, whatever was called
\* before it, the redo stack is empty and cmd is the top of the undo stack.
C3_ExecuteClearsRedo ==
    (op.name \in {"execute_command", "insert_text"} /\ op.err = "none")
    => /\ redo_stack = <<>>
       /\ ~HistoryManager_can_redo(Fields)
       /\ undo_stack # <<>>
       /\ Last(undo_stack) = op.command

\* C3's case: a command is executed while the redo stack holds a command.
C3_Witness ==
    /\ op.name = "execute_command"
    /\ op.err = "none"
    /\ pre.redo_stack # <<>>
    /\ Last(undo_stack) = op.command

\* C4: undo() on an empty undo stack returns False and leaves the stacks and
\* the buffer as they are; otherwise, when the command's undo() returns, it
\* takes the top command off the undo stack, calls its undo() once, pushes it
\* onto the redo stack and returns True, and can_redo() is true after every
\* undo() that returned True.
C4_UndoMovesToRedoStack ==
    op.name = "undo" =>
        /\ IF pre.undo_stack = <<>>
           THEN op.ret = "False" /\ op.err = "none" /\ Fields = pre
           ELSE op.err = "none" =>
                   /\ op.ret = "True"
                   /\ op.calls = <<<<"undo", Last(pre.undo_stack).id>>>>
                   /\ undo_stack = Front(pre.undo_stack)
                   /\ redo_stack = Append(pre.redo_stack, Last(pre.undo_stack))
        /\ (op.ret = "True" => HistoryManager_can_redo(Fields))

\* C4's case: an undo() that returned True with a command left below the one
\* it moved.
C4_Witness ==
    /\ op.name = "undo"
    /\ op.ret = "True"
    /\ Len(pre.undo_stack) = 2
    /\ redo_stack = <<Last(pre.undo_stack)>>

\* C5: the undo stack never holds more than max_history_size commands.
C5_UndoStackBounded == Len(undo_stack) <= max_history_size

\* C6: the buffer holds at least one line in every state reached by
\* insert_text, delete_text and set_text calls, failing ones included, and
\* set_text("") leaves exactly one empty line.
C6_AtLeastOneLine ==
    /\ Len(lines) >= 1
    /\ (op.name = "set_text" /\ op.text = <<>>) => lines = <<<<>>>>

\* C6's case: set_text("") on a buffer of several lines.
C6_Witness ==
    /\ op.name = "set_text"
    /\ op.text = <<>>
    /\ Len(pre.lines) > 1
    /\ lines = <<<<>>>>

\* C7: insert_text and delete_text with a line index outside [0, lineCount),
\* a negative one included, fail with InvalidPosition and leave the lines as
\* they are.
C7_LineOutOfRangeFails ==
    (op.name \in {"insert_text", "delete_text"} /\ ~ExistingLine(op.line, pre.lines))
    => (op.err = "InvalidPositionError" /\ lines = pre.lines)

\* Whether the watched calls are insert_text(l, c, t) on an existing line l
\* with c >= 0 and t without a line separator, then delete_text(l, c, c + len(t)).
InsertThenDelete ==
    /\ pc = "done"
    /\ first.name = "insert_text"
    /\ first.err = "none"
    /\ op.name = "delete_text"
    /\ ExistingLine(first.line, base.lines)
    /\ first.column >= 0
    /\ Separators(first.text) = 0

\* C8 as stated: insert_text(l, c, t) then delete_text(l, c, c + len(t))
\* restores the lines for every column c >= 0, also past the end of the line.
C8_InsertDeleteAnyColumn == InsertThenDelete => lines = base.lines

\* C8 as amended: insert_text(l, c, t) then delete_text(l, c, c + len(t))
\* restores line l and leaves every other line as it was when
\* 0 <= c <= len(line l).
C8_InsertDeleteInverse ==
    (InsertThenDelete /\ first.column <= Len(base.lines[first.line + 1]))
    => (op.err = "none" /\ lines = base.lines)

\* C8's case: a text is inserted before the end of a line of a buffer of
\* several lines and deleted again.
C8_Witness ==
    /\ InsertThenDelete
    /\ first.column < Len(base.lines[first.line + 1])
    /\ first.text # <<>>
    /\ Len(base.lines) > 1
    /\ pre.lines # base.lines
    /\ lines = base.lines

\* C9: set_text(s) then get_text() returns s, and the buffer holds one line
\* more than s has line separators, for every s.
C9_SetTextGetTextRoundTrip ==
    op.name = "set_text" =>
        /\ TextBuffer_get_text(lines) = op.text
        /\ Len(lines) = Separators(op.text) + 1

\* C9's case: a text of two line separators in a row, the last of them final.
C9_Witness ==
    /\ op.name = "set_text"
    /\ op.text = <<"a", NL, NL>>
    /\ lines = <<<<"a">>, <<>>, <<>>>>

\* C10: set_position(line, column) fails with InvalidPosition and leaves the
\* cursor as it is when line < 0 or column < 0, and otherwise stores
\* (line, column), also when that is beyond the buffer's extent.
C10_SetPosition ==
    op.name = "set_position" =>
        IF op.line < 0 \/ op.column < 0
        THEN op.err = "InvalidPositionError" /\ cursor = pre.cursor
        ELSE op.err = "none" /\ cursor = [line |-> op.line, column |-> op.column]

\* C10's case: a call with a line that would move the cursor and a negative
\* column.
C10_Witness ==
    /\ op.name = "set_position"
    /\ op.line >= 0
    /\ op.line # pre.cursor.line
    /\ op.column < 0
    /\ op.err = "InvalidPositionError"

\* C11: when save_to_json(doc, path) has returned, load_from_json(path) called
\* right after it returns a Document whose title, text and cursor are doc's,
\* whose created_at is doc's created_at, whose undo and redo stacks are empty
\* and whose selection is inactive.
C11_JsonRoundTrip ==
    (pc = "done" /\ first.name = "save_to_json" /\ first.err = "none"
        /\ op.name = "load_from_json")
    => /\ op.err = "none"
       /\ op.ret = "Document"
       /\ title = base.title
       /\ Document_get_text(Fields) = Document_get_text(base)
       /\ cursor = base.cursor
       /\ created_at = base.created_at
       /\ undo_stack = <<>>
       /\ redo_stack = <<>>
       /\ ~selection.is_active

\* C12: load_from_json and load_from_xml of a path that holds no file fail
\* with DocumentNotFound and return no Document, and every other failure of a
\* load is a FileOperation failure.
C12_LoadFailures ==
    op.name \in {"load_from_json", "load_from_xml"} =>
        /\ op.file.kind = "none" =>
              (op.err = "DocumentNotFoundError" /\ op.ret = "None" /\ Fields = pre)
        /\ (op.file.kind # "none" /\ op.err # "none") =>
              (op.err = "FileOperationError" /\ op.ret = "None" /\ Fields = pre)

\* C12's case: load_from_json of a path that holds no file, called on a
\* document that was edited.
C12_Witness ==
    /\ op.name = "load_from_json"
    /\ op.file.kind = "none"
    /\ op.err = "DocumentNotFoundError"
    /\ pre.lines # TextBuffer_init
    /\ Fields = pre

\* C13: delete_text(line, start_col, end_col) on an existing line, with
\* columns that are not negative, changes nothing when start_col >= end_col
\* after both are clamped to the length of the line, and never makes the line
\* longer.
C13_DeleteNeverLengthens ==
    (op.name = "delete_text" /\ ExistingLine(op.line, pre.lines)
        /\ op.column >= 0 /\ op.end_col >= 0)
    => LET old == pre.lines[op.line + 1]
           start_col == Min(op.column, Len(old))
           end_col == Min(op.end_col, Len(old))
       IN  /\ op.err = "none"
           /\ Len(lines) = Len(pre.lines)
           /\ start_col >= end_col => lines = pre.lines
           /\ Len(lines[op.line + 1]) <= Len(old)

\* C14: the line and the column of the cursor are never negative.
C14_CursorNotNegative == cursor.line >= 0 /\ cursor.column >= 0

\* Whether new is old with text put in at column, a column within old or
\* past its end.
InsertedAt(old, column, text, new) ==
    LET k == Min(column, Len(old))
    IN  new = SubSeq(old, 1, k) \o text \o SubSeq(old, k + 1, Len(old))

\* C15: Document.insert_text(text) leaves the cursor, the selection, the title
\* and created_at as they are; when it returns, line cursor.line of the buffer
\* has text put in at column cursor.column and every other line is as it was;
\* when it fails, the buffer, the stacks and modified_at are as they were.
C15_InsertTextFrame ==
    op.name = "insert_text" =>
        /\ cursor = pre.cursor
        /\ selection = pre.selection
        /\ title = pre.title
        /\ created_at = pre.created_at
        /\ IF op.err = "none"
           THEN /\ ExistingLine(pre.cursor.line, pre.lines)
                /\ Len(lines) = Len(pre.lines)
                /\ \A k \in 1..Len(lines) :
                       IF k = pre.cursor.line + 1
                       THEN InsertedAt(pre.lines[k], pre.cursor.column, op.text, lines[k])
                       ELSE lines[k] = pre.lines[k]
           ELSE Fields = pre

\* C15's case: a text is inserted at a cursor that is not at the start of the
\* buffer while the selection is active.
C15_Witness ==
    /\ op.name = "insert_text"
    /\ op.err = "none"
    /\ pre.selection.is_active
    /\ pre.cursor.column > 0
    /\ Len(pre.lines) > 1
    /\ lines # pre.lines
    /\ cursor = pre.cursor

\* C16: Document.set_text(text) makes text the text of the buffer, puts the
\* cursor at (0, 0) and leaves the undo stack and the redo stack as they
\* were; an undo() called right after it undoes the command that was on top
\* of the undo stack before set_text, and on an empty undo stack returns
\* False and leaves the text set_text made.
C16_SetTextKeepsHistory ==
    /\ op.name = "set_text" =>
          /\ op.err = "none"
          /\ Document_get_text(Fields) = op.text
          /\ cursor = [line |-> 0, column |-> 0]
          /\ undo_stack = pre.undo_stack
          /\ redo_stack = pre.redo_stack
    /\ (pc = "done" /\ first.name = "set_text" /\ op.name = "undo") =>
          IF base.undo_stack = <<>>
          THEN /\ op.ret = "False"
               /\ op.calls = <<>>
               /\ Document_get_text(Fields) = first.text
          ELSE op.calls = <<<<"undo", Last(base.undo_stack).id>>>>

\* C16's case: set_text on a document whose undo stack holds a command, then
\* an undo() that returns True.
C16_Witness ==
    /\ pc = "done"
    /\ first.name = "set_text"
    /\ base.undo_stack # <<>>
    /\ pre.lines # base.lines
    /\ pre.undo_stack = base.undo_stack
    /\ op.name = "undo"
    /\ op.ret = "True"
    /\ lines = pre.lines

\* C17: modified_at is a later instant after every insert_text and set_text
\* that returns and every undo() and redo() that returns True, and is the
\* instant it was after every undo() and redo() that returns False and every
\* insert_text, undo() and redo() that raises.
C17_ModifiedAt ==
    op.name \in {"insert_text", "set_text", "undo", "redo"} =>
        IF op.err = "none" /\ (op.name \in {"undo", "redo"} => op.ret = "True")
        THEN modified_at > pre.modified_at
        ELSE modified_at = pre.modified_at

\* C17's case: an undo() that returns True on a document that was modified
\* since it was constructed.
C17_Witness ==
    /\ op.name = "undo"
    /\ op.ret = "True"
    /\ pre.modified_at > base.created_at + 1
    /\ modified_at = pre.modified_at + 1

\* The text between (start_line, start_column) and (end_line, end_column) of
\* ls: of one line the characters from start_column up to end_column, of
\* several lines the rest of the first one, the lines between and the start
\* of the last one, joined by line separators.
SelectedSpan(sel, ls) ==
    IF sel.start_line = sel.end_line
    THEN SubSeq(ls[sel.start_line + 1], sel.start_column + 1, sel.end_column)
    ELSE LET first_line == ls[sel.start_line + 1]
             last_line == ls[sel.end_line + 1]
         IN  Join(<<SubSeq(first_line, sel.start_column + 1, Len(first_line))>>
                  \o SubSeq(ls, sel.start_line + 2, sel.end_line)
                  \o <<SubSeq(last_line, 1, sel.end_column)>>)

\* Whether the start of sel is not after its end and both are positions of ls.
SpanInBuffer(sel, ls) ==
    /\ ExistingLine(sel.start_line, ls)
    /\ ExistingLine(sel.end_line, ls)
    /\ sel.start_line <= sel.end_line
    /\ sel.start_column <= Len(ls[sel.start_line + 1])
    /\ sel.end_column <= Len(ls[sel.end_line + 1])
    /\ sel.start_line = sel.end_line => sel.start_column <= sel.end_column

\* C18: get_selected_text(lines) returns "" when the selection is inactive,
\* and the text of lines between the start and the end of the selection when
\* it is active.
C18_SelectedText ==
    op.name = "get_selected_text" =>
        IF ~selection.is_active THEN op.value = <<>>
        ELSE SpanInBuffer(selection, lines) =>
                op.value = SelectedSpan(selection, lines)

\* The outcome of calling undo() until the undo stack is empty or an undo()
\* does not return True.
RECURSIVE UndoAll(_)
UndoAll(d) ==
    IF d.undo_stack = <<>> THEN Outcome(d, "True", "none", <<>>)
    ELSE LET r == Document_undo(d)
         IN  IF r.err # "none" \/ r.ret # "True" THEN r ELSE UndoAll(r)

\* C19: in every state, undoing every command on the undo stack succeeds, and
\* when the commands were pushed by the last call on an empty undo stack it
\* returns the buffer to the lines it held before that call.
C19_HistoryMatchesBuffer ==
    /\ UndoAll(Fields).err = "none"
    /\ UndoAll(Fields).ret = "True"
    /\ (pc = "called" /\ pre.undo_stack = <<>> /\ undo_stack # <<>>) =>
          UndoAll(Fields).lines = pre.lines

\* C20: when execute_command, undo or redo raises, the undo stack and the
\* redo stack are as they were before the call.
C20_FailureKeepsStacks ==
    (op.name \in {"execute_command", "insert_text", "undo", "redo"}
        /\ op.err # "none")
    => (undo_stack = pre.undo_stack /\ redo_stack = pre.redo_stack)

=============================================================================
